---- MODULE Spec2Model ----
(***************************************************************************)
(* A model of the retrieval pipeline of rag-api: VectorRetriever           *)
(* (core/rag/retriever.py) with its collaborators SelfQuery,               *)
(* QueryExpansion and Reranker.  The language model, the embedding model   *)
(* and the vector store are oracles: their answers and their failures are  *)
(* inputs drawn from small sets.                                           *)
(***************************************************************************)
EXTENDS Integers, Sequences, FiniteSets, TLC

(***************************************************************************)
(* Bounds of the model.                                                    *)
(***************************************************************************)
\* retrieve_top_k calls made on one orchestrator in one run
MaxCalls == 2
\* longest gathered hit list fed to the merge step in SpecMerge
MaxHits == 3
\* scores of the hits fed to the merge step in SpecMerge are 0..MaxScore
MaxScore == 1
\* longest response of the language model in SpecExpand, in characters
MaxResponse == 3

(***************************************************************************)
(* Program constants.                                                      *)
(***************************************************************************)
\* VectorRetriever.COLLECTION_TYPES, in list order
COLLECTION_TYPES ==
    << "edgar_fillings", "earnings_call_transcripts", "financial_news",
       "investopedia", "macro_economic_reports" >>

\* int(os.getenv("MAX_WORKERS", 2))
DefaultMaxWorkers == 2
\* int(os.getenv("BATCH_SIZE", 32))
DefaultBatchSize == 32

\* Python's None where the other values are strings
None == "None"

\* an Optional value that is not a string: Nothing is None, Some(x) is x
Nothing == <<>>
Some(x) == <<x>>

Min(a, b) == IF a <= b THEN a ELSE b
Max(a, b) == IF a >= b THEN a ELSE b

(***************************************************************************)
(* Python list operations used by the code.                                *)
(***************************************************************************)
\* s[:k]: the first k elements for k >= 0, all but the last -k for k < 0
Slice(s, k) ==
    IF k >= 0 THEN SubSeq(s, 1, Min(k, Len(s)))
    ELSE SubSeq(s, 1, Max(0, Len(s) + k))

\* a mutant of InsertDesc: the new element goes before the elements of its
\* own score, as a sort that is ascending and then reversed would place it
InsertDescBeforeTies(s, h) ==
    LET p == Cardinality({i \in 1..Len(s) : s[i].score > h.score})
    IN  SubSeq(s, 1, p) \o <<h>> \o SubSeq(s, p + 1, Len(s))

\* one insertion of list.sort(key=score, reverse=True): h, which arrived
\* after every element of s, goes after the elements with score >= its own
InsertDesc(s, h) ==
    LET p == Cardinality({i \in 1..Len(s) : s[i].score >= h.score})
    IN  SubSeq(s, 1, p) \o <<h>> \o SubSeq(s, p + 1, Len(s))

RECURSIVE SortByScoreDesc(_)
\* hits.sort(key=lambda x: x.score, reverse=True): descending and stable
SortByScoreDesc(s) ==
    IF s = <<>> THEN <<>>
    ELSE InsertDesc(SortByScoreDesc(SubSeq(s, 1, Len(s) - 1)), s[Len(s)])

\* a mutant of MergeTopK: the sorted list is returned without truncation
MergeNoTruncate(hs, k) == SortByScoreDesc(hs)

\* the merge step of retrieve_top_k: hits.sort(...); hits = hits[:k]
MergeTopK(hs, k) == Slice(SortByScoreDesc(hs), k)

(***************************************************************************)
(* SelfQuery (core/rag/self_query.py).  A query is its characters         *)
(* followed by the date clauses appended to it so far (a clause is digits, *)
(* hyphens, " between " and " and ": no table phrase occurs in it); a date *)
(* is a day number counted from the first of January of the year of        *)
(* "today" (a common year), and may be negative.                           *)
(***************************************************************************)
\* SelfQuery.DATE_RANGE_KEYWORDS, in dictionary order
DATE_RANGE_KEYWORDS ==
    <<
       \* "recent"
       [phrase |-> <<"r", "e", "c", "e", "n", "t">>,
        kind |-> "days", arg |-> 7],
       \* "latest"
       [phrase |-> <<"l", "a", "t", "e", "s", "t">>,
        kind |-> "days", arg |-> 7],
       \* "current"
       [phrase |-> <<"c", "u", "r", "r", "e", "n", "t">>,
        kind |-> "days", arg |-> 7],
       \* "today"
       [phrase |-> <<"t", "o", "d", "a", "y">>,
        kind |-> "days", arg |-> 1],
       \* "yesterday"
       [phrase |-> <<"y", "e", "s", "t", "e", "r", "d", "a", "y">>,
        kind |-> "days", arg |-> 1],
       \* "last week"
       [phrase |-> <<"l", "a", "s", "t", " ", "w", "e", "e", "k">>,
        kind |-> "days", arg |-> 7],
       \* "this week"
       [phrase |-> <<"t", "h", "i", "s", " ", "w", "e", "e", "k">>,
        kind |-> "current_week", arg |-> 0],
       \* "past week"
       [phrase |-> <<"p", "a", "s", "t", " ", "w", "e", "e", "k">>,
        kind |-> "days", arg |-> 7],
       \* "last month"
       [phrase |-> <<"l", "a", "s", "t", " ", "m", "o", "n", "t", "h">>,
        kind |-> "days", arg |-> 30],
       \* "this month"
       [phrase |-> <<"t", "h", "i", "s", " ", "m", "o", "n", "t", "h">>,
        kind |-> "current_month", arg |-> 0],
       \* "past month"
       [phrase |-> <<"p", "a", "s", "t", " ", "m", "o", "n", "t", "h">>,
        kind |-> "days", arg |-> 30],
       \* "month_to_date"
       [phrase |-> <<"m", "o", "n", "t", "h", "_", "t", "o", "_", "d", "a", "t", "e">>,
        kind |-> "current_month", arg |-> 0],
       \* "last quarter"
       [phrase |-> <<"l", "a", "s", "t", " ", "q", "u", "a", "r", "t", "e", "r">>,
        kind |-> "days", arg |-> 90],
       \* "this quarter"
       [phrase |-> <<"t", "h", "i", "s", " ", "q", "u", "a", "r", "t", "e", "r">>,
        kind |-> "current_quarter", arg |-> 0],
       \* "past quarter"
       [phrase |-> <<"p", "a", "s", "t", " ", "q", "u", "a", "r", "t", "e", "r">>,
        kind |-> "days", arg |-> 90],
       \* "quarter_to_date"
       [phrase |-> <<"q", "u", "a", "r", "t", "e", "r", "_", "t", "o", "_", "d", "a", "t", "e">>,
        kind |-> "current_quarter", arg |-> 0],
       \* "last year"
       [phrase |-> <<"l", "a", "s", "t", " ", "y", "e", "a", "r">>,
        kind |-> "days", arg |-> 365],
       \* "this year"
       [phrase |-> <<"t", "h", "i", "s", " ", "y", "e", "a", "r">>,
        kind |-> "current_year", arg |-> 0],
       \* "past year"
       [phrase |-> <<"p", "a", "s", "t", " ", "y", "e", "a", "r">>,
        kind |-> "days", arg |-> 365],
       \* "year_to_date"
       [phrase |-> <<"y", "e", "a", "r", "_", "t", "o", "_", "d", "a", "t", "e">>,
        kind |-> "current_year", arg |-> 0],
       \* "ytd"
       [phrase |-> <<"y", "t", "d">>,
        kind |-> "current_year", arg |-> 0],
       \* "last 6 months"
       [phrase |-> <<"l", "a", "s", "t", " ", "6", " ", "m", "o", "n", "t", "h", "s">>,
        kind |-> "days", arg |-> 180],
       \* "last 3 months"
       [phrase |-> <<"l", "a", "s", "t", " ", "3", " ", "m", "o", "n", "t", "h", "s">>,
        kind |-> "days", arg |-> 90],
       \* "last 2 years"
       [phrase |-> <<"l", "a", "s", "t", " ", "2", " ", "y", "e", "a", "r", "s">>,
        kind |-> "days", arg |-> 730],
       \* "last 5 years"
       [phrase |-> <<"l", "a", "s", "t", " ", "5", " ", "y", "e", "a", "r", "s">>,
        kind |-> "days", arg |-> 1825] >>

UpperCase ==
    << "A", "B", "C", "D", "E", "F", "G", "H", "I", "J", "K", "L", "M",
       "N", "O", "P", "Q", "R", "S", "T", "U", "V", "W", "X", "Y", "Z" >>
LowerCase ==
    << "a", "b", "c", "d", "e", "f", "g", "h", "i", "j", "k", "l", "m",
       "n", "o", "p", "q", "r", "s", "t", "u", "v", "w", "x", "y", "z" >>

\* str.lower() on one character
LowerChar(c) ==
    IF \E i \in 1..Len(UpperCase) : UpperCase[i] = c
    THEN LowerCase[CHOOSE i \in 1..Len(UpperCase) : UpperCase[i] = c]
    ELSE c

\* query.lower()
Lower(text) == [i \in 1..Len(text) |-> LowerChar(text[i])]

\* keyword in query_lower
Contains(text, phrase) ==
    \E i \in 1..(Len(text) - Len(phrase) + 1) :
        SubSeq(text, i, i + Len(phrase) - 1) = phrase

\* day number of the first day of each month of a common year
MonthStarts == <<0, 31, 59, 90, 120, 151, 181, 212, 243, 273, 304, 334>>

\* today.month
MonthOf(d) == Cardinality({m \in 1..12 : MonthStarts[m] <= d})

\* today.weekday(), Monday = 0; day 0 (2026-01-01) is a Thursday
WeekdayOf(d) == (d + 3) % 7

\* the range a matched table entry computes
RangeOf(entry, today) ==
    CASE entry.kind = "days" ->
            [start_date |-> today - entry.arg, end_date |-> today]
      [] entry.kind = "current_year" ->
            [start_date |-> 0, end_date |-> today]
      [] entry.kind = "current_month" ->
            [start_date |-> MonthStarts[MonthOf(today)], end_date |-> today]
      [] entry.kind = "current_quarter" ->
            [start_date |-> MonthStarts[((MonthOf(today) - 1) \div 3) * 3 + 1],
             end_date |-> today]
      [] entry.kind = "current_week" ->
            [start_date |-> today - WeekdayOf(today), end_date |-> today]

RECURSIVE ScanKeywords(_, _, _)
\* the loop of _extract_date_range from the i-th entry of the table on: the
\* first entry whose phrase occurs in query_lower returns its range
ScanKeywords(query_lower, today, i) ==
    IF i > Len(DATE_RANGE_KEYWORDS) THEN Nothing
    ELSE IF Contains(query_lower, DATE_RANGE_KEYWORDS[i].phrase)
    THEN Some(RangeOf(DATE_RANGE_KEYWORDS[i], today))
    ELSE ScanKeywords(query_lower, today, i + 1)

RECURSIVE ScanKeywordsLast(_, _, _)
\* the loop without its early return: the last matching entry wins
ScanKeywordsLast(query_lower, today, i) ==
    IF i > Len(DATE_RANGE_KEYWORDS) THEN Nothing
    ELSE LET later == ScanKeywordsLast(query_lower, today, i + 1)
         IN  IF later # Nothing THEN later
             ELSE IF Contains(query_lower, DATE_RANGE_KEYWORDS[i].phrase)
             THEN Some(RangeOf(DATE_RANGE_KEYWORDS[i], today))
             ELSE Nothing

\* a mutant of _extract_date_range: the whole table is scanned
_extract_date_range_last(text, today) == ScanKeywordsLast(Lower(text), today, 1)

\* SelfQuery._extract_date_range
_extract_date_range(text, today) == ScanKeywords(Lower(text), today, 1)

\* a mutant of extract_metadata: the date range is returned and the query
\* left as it was
extract_metadata_bare(q, today) ==
    [modified_query |-> q, date_range |-> _extract_date_range(q.text, today)]

\* SelfQuery.extract_metadata: the date clause is appended to the query
extract_metadata(q, today) ==
    LET date_range == _extract_date_range(q.text, today)
    IN  IF date_range # Nothing
        THEN [modified_query |-> [text |-> q.text,
                                  dates |-> Append(q.dates, date_range[1])],
              date_range |-> date_range]
        ELSE [modified_query |-> q, date_range |-> Nothing]

(***************************************************************************)
(* QueryExpansion and Reranker (core/rag/query_expanison.py,               *)
(* core/rag/reranking.py).  A model response is a sequence of characters;  *)
(* the template's separator is one character of its own.                   *)
(***************************************************************************)
separator == "#"

Whitespace == {" ", "\n", "\t"}

RECURSIVE LStrip(_, _)
LStrip(s, cs) ==
    IF s # <<>> /\ Head(s) \in cs THEN LStrip(Tail(s), cs) ELSE s

RECURSIVE RStrip(_, _)
RStrip(s, cs) ==
    IF s # <<>> /\ s[Len(s)] \in cs THEN RStrip(SubSeq(s, 1, Len(s) - 1), cs) ELSE s

\* str.strip(chars): characters of cs removed from both ends
Strip(s, cs) == RStrip(LStrip(s, cs), cs)

RECURSIVE SplitFrom(_, _, _)
\* the segments of s from position i on, cur being the segment in progress
SplitFrom(s, i, cur) ==
    IF i > Len(s) THEN <<cur>>
    ELSE IF s[i] = separator THEN <<cur>> \o SplitFrom(s, i + 1, <<>>)
    ELSE SplitFrom(s, i + 1, Append(cur, s[i]))

\* str.split(separator)
Split(s) == SplitFrom(s, 1, <<>>)

\* [x for x in items if x]
NonEmpty(items) == SelectSeq(items, LAMBDA x : x # <<>>)

\* the characters of the argument of item.strip(" \\n") in
\* QueryExpansion.generate_response: a space, a backslash and the letter n
ExpansionStripChars == {" ", "\\", "n"}

\* QueryExpansion.generate_response on the model's response
ExpansionOf(response) ==
    LET queries == Split(Strip(response, Whitespace))
    IN  NonEmpty([i \in 1..Len(queries) |-> Strip(queries[i], ExpansionStripChars)])

\* Reranker.generate_response on the model's response
RerankingOf(response) ==
    LET reranked_passages == Split(Strip(response, Whitespace))
    IN  NonEmpty([i \in 1..Len(reranked_passages) |->
                      Strip(reranked_passages[i], Whitespace)])

(***************************************************************************)
(* Search filters and the vector store.                                    *)
(***************************************************************************)
\* a mutant of _construct_search_query: only the first of the additional
\* filters becomes a condition
_construct_search_query_first(collection_type, additional_filters) ==
    LET typeCond == IF collection_type # None /\ collection_type # ""
                    THEN << [key |-> "type", value |-> collection_type] >>
                    ELSE <<>>
        must_conditions == typeCond \o
            (IF additional_filters # Nothing
             THEN SubSeq(additional_filters[1], 1, Min(1, Len(additional_filters[1])))
             ELSE <<>>)
    IN  IF must_conditions # <<>> THEN Some([must |-> must_conditions]) ELSE Nothing

\* VectorRetriever._construct_search_query: Filter(must=must_conditions),
\* or None when there is no condition.  additional_filters is None or a
\* dict: a sequence of key/value pairs with distinct keys, in insertion
\* order.
_construct_search_query(collection_type, additional_filters) ==
    LET typeCond == IF collection_type # None /\ collection_type # ""
                    THEN << [key |-> "type", value |-> collection_type] >>
                    ELSE <<>>
        must_conditions == typeCond \o
            (IF additional_filters # Nothing THEN additional_filters[1] ELSE <<>>)
    IN  IF must_conditions # <<>> THEN Some([must |-> must_conditions]) ELSE Nothing

\* the documents of each collection, nearest first: the payload and the
\* score under each of the two embedding vectors of the model
Documents ==
    << << [payload |-> [type |-> "edgar_fillings", author |-> "x", content |-> "e1"],
           scores |-> <<3, 2>>],
          [payload |-> [type |-> "edgar_fillings", author |-> "y", content |-> "e2"],
           scores |-> <<1, 1>>] >>,
       << [payload |-> [type |-> "earnings_call_transcripts", author |-> "x", content |-> "t1"],
           scores |-> <<2, 3>>] >>,
       << [payload |-> [type |-> "financial_news", author |-> "y", content |-> "n1"],
           scores |-> <<3, 3>>],
          [payload |-> [type |-> "financial_news", author |-> "x", content |-> "n2"],
           scores |-> <<2, 1>>] >>,
       << [payload |-> [type |-> "investopedia", author |-> "x"],
           scores |-> <<1, 0>>] >>,
       << [payload |-> [type |-> "macro_economic_reports", author |-> "y", content |-> "m1"],
           scores |-> <<2, 2>>] >> >>

\* whether a payload satisfies every condition of a filter
Matches(payload, filter) ==
    filter = Nothing \/
    \A i \in 1..Len(filter[1].must) :
        /\ filter[1].must[i].key \in DOMAIN payload
        /\ payload[filter[1].must[i].key] = filter[1].must[i].value

\* QdrantDatabaseConnector.search: the first limit matching documents of
\* the collection, scored against the query vector
StoreSearch(c, query_vector, query_filter, limit) ==
    LET matching == SelectSeq(Documents[c], LAMBDA d : Matches(d.payload, query_filter))
        found == SubSeq(matching, 1, Min(Max(limit, 0), Len(matching)))
    IN  [i \in 1..Len(found) |->
            [score |-> found[i].scores[query_vector], payload |-> found[i].payload]]

\* SentenceTransformer.encode: the model has two embedding vectors
Encode(generated_query) == (Len(generated_query) % 2) + 1

(***************************************************************************)
(* Inputs of the model.                                                    *)
(***************************************************************************)
\* the queries an orchestrator is constructed with or given by set_query
Queries ==
    { \* "rates"
      [text |-> <<"r", "a", "t", "e", "s">>, dates |-> <<>>],
      \* "Recent rates"
      [text |-> <<"R", "e", "c", "e", "n", "t", " ", "r", "a", "t", "e", "s">>,
       dates |-> <<>>] }

\* the day datetime.now() falls on
Todays == {40}

\* the arguments of the retrieve_top_k calls
CallArgs ==
    { [k |-> 3, n |-> 3, collection_type |-> None, additional_filters |-> Nothing],
      [k |-> 5, n |-> 2, collection_type |-> None, additional_filters |-> Nothing],
      [k |-> 5, n |-> 2, collection_type |-> "financial_news",
       additional_filters |-> Some(<< [key |-> "author", value |-> "y"] >>)] }

\* the responses of the language model to the expansion prompt
ExpansionResponses ==
    { <<"a">>,
      <<"a", "#", "b", "c", "\n">>,
      <<" ", "#", "\n">> }

\* the responses of the language model to the reranking prompt
RerankResponses == { <<"e", "1">>, <<"n", "1", "#", " ", "t", "1", "#">> }

\* the sets of collections (by position in COLLECTION_TYPES) whose store
\* search raises during one retrieve_top_k call
DownSets == { {}, {3} }

\* the sets of search tasks (by position among the generated queries)
\* whose embedding call raises
BadEmbeddings == { {}, {1} }

\* the values of MAX_WORKERS in the environment, its default among them
WorkerSettings == {0, 1, DefaultMaxWorkers}

\* the values of keep_top_k given to rerank
KeepValues == {1, 3}

Collections == 1..Len(COLLECTION_TYPES)

(***************************************************************************)
(* The state.                                                              *)
(***************************************************************************)
\* a handle that is None
NoHandle == None

\* the instance a handle holds: the n-th one constructed during the current
\* retrieve_top_k call, or one that an earlier call left behind
Instance(n) == ToString(n)
Old == "old"

\* a handle when the call that may have loaded it has returned
Aged(handle) == IF handle = NoHandle THEN NoHandle ELSE Old

VARIABLES
    query,                \* self.query
    _client,              \* self._client: NoHandle or the instance
    _embedder,            \* self._embedder
    _query_expander,      \* self._query_expander
    _metadata_extractor,  \* self._metadata_extractor
    _reranker,            \* self._reranker
    _max_workers,         \* self._max_workers
    _batch_size,          \* self._batch_size
    today,                \* the day datetime.now() returns
    pc,                   \* where the calling thread is: "idle", or a step of retrieve_top_k
    call,                 \* the call in progress or last made: its arguments and its oracles' failures
    generated_queries,    \* retrieve_top_k's generated_queries
    tasks,                \* the search tasks submitted to the executor
    collected,            \* the tasks whose future as_completed has yielded
    hits,                 \* retrieve_top_k's hits, before the merge
    ret,                  \* the list the last retrieve_top_k call returned (the caller's
                          \* hits); empty while a call runs
    outcome,              \* how the last retrieve_top_k call ended
    context,              \* the list the last rerank call returned, until the next
                          \* retrieve_top_k call
    lastOp,               \* the last operation completed, with what it was given
    made,                 \* how many embedders and clients the current call constructed,
                          \* and whether set_query dropped the embedder since one was made
    calls,                \* retrieve_top_k calls made so far
    http                  \* the POST /api/query request being served, with its response

vars == << query, _client, _embedder, _query_expander, _metadata_extractor,
           _reranker, _max_workers, _batch_size, today, pc, call,
           generated_queries, tasks, collected, hits, ret, outcome, context,
           lastOp, made, calls, http >>

handles == << _client, _embedder, _query_expander, _metadata_extractor, _reranker >>
settings == << _max_workers, _batch_size >>

\* no request: the orchestrator is used directly
NoRequest == [status |-> 0]

NoCall ==
    [args |-> [k |-> 0, n |-> 0, collection_type |-> None, additional_filters |-> Nothing],
     down |-> {}, bad |-> {}]

\* VectorRetriever.__init__
InitOrchestrator(q) ==
    /\ query = q
    /\ _client = NoHandle
    /\ _embedder = NoHandle
    /\ _query_expander = NoHandle
    /\ _metadata_extractor = NoHandle
    /\ _reranker = NoHandle
    /\ _max_workers \in WorkerSettings
    /\ _batch_size = DefaultBatchSize

Init ==
    /\ \E q \in Queries : InitOrchestrator(q)
    /\ today \in Todays
    /\ http = NoRequest
    /\ pc = "idle"
    /\ call = NoCall
    /\ generated_queries = <<>>
    /\ tasks = <<>>
    /\ collected = {}
    /\ hits = <<>>
    /\ ret = <<>>
    /\ outcome = [raised |-> FALSE, failed |-> "none", expansion |-> "none",
                  searched |-> <<>>]
    /\ context = <<>>
    /\ lastOp = [name |-> "init"]
    /\ made = [embedder |-> 0, client |-> 0, dropped |-> FALSE]
    /\ calls = 0

\* _get_query_expander, _get_metadata_extractor, _get_reranker: the handle
\* after the lazy load
Loaded(handle) == IF handle = NoHandle THEN Old ELSE handle

(***************************************************************************)
(* retrieve_top_k, the calling thread.                                     *)
(***************************************************************************)
\* the locals of retrieve_top_k go when it returns; hits is kept, as the
\* list the merge step was given
ReturnFrame ==
    /\ pc' = "idle"
    /\ _embedder' = Aged(_embedder)
    /\ _client' = Aged(_client)
    /\ made' = [made EXCEPT !.dropped = @ /\ _embedder = NoHandle]
    /\ generated_queries' = <<>>
    /\ tasks' = <<>>
    /\ collected' = {}
    /\ lastOp' = [name |-> "retrieve_top_k"]

\* a mutant of Caught: retrieve_top_k without its try/except
Propagated(sofar, stage) ==
    /\ ret' = <<>>
    /\ outcome' = [sofar EXCEPT !.raised = TRUE, !.failed = stage]
    /\ ReturnFrame

\* the except clause of retrieve_top_k: the exception raised at stage is
\* logged and the call returns []; sofar is what the call did until then
Caught(sofar, stage) ==
    /\ ret' = <<>>
    /\ outcome' = [sofar EXCEPT !.raised = FALSE, !.failed = stage]
    /\ ReturnFrame

\* retrieve_top_k up to the metadata extraction: log_memory_usage() or the
\* construction of the extractor raises, or the stored query becomes
\* modified_query
retrieve_top_k(a) ==
    /\ pc = "idle"
    /\ calls < MaxCalls
    /\ calls' = calls + 1
    /\ call' = [args |-> a, down |-> {}, bad |-> {}]
    /\ hits' = <<>>
    /\ context' = <<>>
    /\ \/ /\ outcome' = [raised |-> FALSE, failed |-> "running", expansion |-> "none",
                         searched |-> <<>>]
          /\ _metadata_extractor' = Loaded(_metadata_extractor)
          /\ query' = extract_metadata(query, today).modified_query
          /\ pc' = "expand"
          /\ lastOp' = [name |-> "retrieve_top_k"]
          /\ ret' = <<>>
          /\ made' = [made EXCEPT !.embedder = 0, !.client = 0]
          /\ UNCHANGED << generated_queries, tasks, collected, _client, _embedder >>
       \/ /\ Caught([raised |-> FALSE, failed |-> "running", expansion |-> "none",
                      searched |-> <<>>], "extract")
          /\ UNCHANGED << query, _metadata_extractor >>
    /\ UNCHANGED << _query_expander, _reranker, settings, today, http >>

\* a mutant of Expand: when the oracle raises, the stored query is searched
\* as the only variant
ExpandFallingBack ==
    /\ pc = "expand"
    /\ _query_expander' = Loaded(_query_expander)
    /\ \/ /\ \E response \in ExpansionResponses :
                generated_queries' = ExpansionOf(response)
          /\ outcome' = [outcome EXCEPT !.expansion = "returned"]
       \/ /\ generated_queries' = << <<"q">> >>
          /\ outcome' = [outcome EXCEPT !.expansion = "raised"]
    /\ pc' = "submit"
    /\ UNCHANGED << tasks, collected, ret, lastOp, _client, _embedder, made >>
    /\ UNCHANGED << query, _metadata_extractor, _reranker,
                    settings, today, http, call, hits, context, calls >>

\* the query expansion, the language model answering with one of the
\* responses: generate_response is given the stored query, and the oracle
\* raises, or its response is split into the generated queries
ExpandOn(responses) ==
    /\ pc = "expand"
    /\ _query_expander' = Loaded(_query_expander)
    /\ \/ /\ \E response \in responses :
                /\ generated_queries' = ExpansionOf(response)
                /\ lastOp' = [name |-> "retrieve_top_k", expanded |-> query,
                              response |-> response]
          /\ outcome' = [outcome EXCEPT !.expansion = "returned"]
          /\ pc' = "submit"
          /\ UNCHANGED << tasks, collected, ret >>
          /\ UNCHANGED << _client, _embedder, made >>
       \/ Caught([outcome EXCEPT !.expansion = "raised"], "expand")
    /\ UNCHANGED << query, _metadata_extractor, _reranker,
                    settings, today, http, call, hits, context, calls >>

\* the query expansion of retrieve_top_k
Expand == ExpandOn(ExpansionResponses)

\* a search task as executor.submit queues it, with the arguments it was
\* submitted with; limits are the limits of the store calls it has issued
NewTask(generated_query, collection_type, additional_filters, k) ==
    [state |-> "queued", q |-> generated_query,
     collection_type |-> collection_type, additional_filters |-> additional_filters,
     k |-> k, embedder |-> NoHandle, clients |-> {}, vec |-> 0, filter |-> Nothing,
     ci |-> 1, limits |-> <<>>, results |-> <<>>]

\* a mutant of Submit: the searches are submitted with the query variant
\* alone, and run with the defaults of _search_single_query
SubmitDefaults ==
    /\ pc = "submit"
    /\ IF _max_workers <= 0
       THEN /\ Caught(outcome, "executor")
            /\ UNCHANGED call
       ELSE /\ tasks' = [i \in 1..Len(generated_queries) |->
                          NewTask(generated_queries[i], None, Nothing, 5)]
            /\ \E d \in DownSets, b \in BadEmbeddings :
                  call' = [call EXCEPT !.down = d, !.bad = b]
            /\ outcome' = [outcome EXCEPT !.searched = generated_queries]
            /\ pc' = "gather"
            /\ UNCHANGED << generated_queries, collected, ret, lastOp,
                            _client, _embedder, made >>
    /\ UNCHANGED << query, _query_expander, _metadata_extractor, _reranker,
                    settings, today, http, hits, context, calls >>

\* ThreadPoolExecutor(max_workers=...) raises ValueError for a size <= 0;
\* otherwise one task per generated query is submitted, in order
Submit ==
    /\ pc = "submit"
    /\ IF _max_workers <= 0
       THEN /\ Caught(outcome, "executor")
            /\ UNCHANGED call
       ELSE /\ tasks' = [i \in 1..Len(generated_queries) |->
                          NewTask(generated_queries[i], call.args.collection_type,
                                  call.args.additional_filters, call.args.k)]
            /\ \E d \in DownSets, b \in BadEmbeddings :
                  call' = [call EXCEPT !.down = d, !.bad = b]
            /\ outcome' = [outcome EXCEPT !.searched = generated_queries]
            /\ pc' = "gather"
            /\ UNCHANGED << generated_queries, collected, ret, lastOp,
                            _client, _embedder, made >>
    /\ UNCHANGED << query, _query_expander, _metadata_extractor, _reranker,
                    settings, today, http, hits, context, calls >>

\* a mutant of Gather: hits = result in place of hits.extend(result)
GatherReplacing(t) ==
    /\ pc = "gather"
    /\ t \in DOMAIN tasks
    /\ tasks[t].state = "done"
    /\ t \notin collected
    /\ collected' = collected \cup {t}
    /\ hits' = tasks[t].results
    /\ UNCHANGED << query, handles, settings, today, http, pc, call, generated_queries,
                    tasks, ret, outcome, context, lastOp, made, calls >>

\* one turn of the as_completed loop: the future of a finished task is
\* yielded and its result appended to hits
Gather(t) ==
    /\ pc = "gather"
    /\ t \in DOMAIN tasks
    /\ tasks[t].state = "done"
    /\ t \notin collected
    /\ collected' = collected \cup {t}
    /\ hits' = hits \o tasks[t].results
    /\ UNCHANGED << query, handles, settings, today, http, pc, call, generated_queries,
                    tasks, ret, outcome, context, lastOp, made, calls >>

\* a turn of the as_completed loop in which log_memory_usage() raises
\* after the result was appended: the exception leaves the with block,
\* whose exit is executor.shutdown(wait=True)
GatherRaises(t) ==
    /\ pc = "gather"
    /\ t \in DOMAIN tasks
    /\ tasks[t].state = "done"
    /\ t \notin collected
    /\ collected' = collected \cup {t}
    /\ hits' = hits \o tasks[t].results
    /\ pc' = "shutdown"
    /\ UNCHANGED << query, handles, settings, today, http, call, generated_queries,
                    tasks, ret, outcome, context, lastOp, made, calls >>

\* the shutdown of the executor has waited for every task, the queued ones
\* too (no future is cancelled), and the exception reaches the except
\* clause
ShutdownAndReturn ==
    /\ pc = "shutdown"
    /\ \A t \in DOMAIN tasks : tasks[t].state = "done"
    /\ Caught(outcome, "gather")
    /\ UNCHANGED << query, _query_expander, _metadata_extractor, _reranker,
                    settings, today, http, call, hits, context, calls >>

\* after the last future: the executor is shut down, the hits are merged
\* and the top k returned, unless the sort raises
MergeAndReturn ==
    /\ pc = "gather"
    /\ collected = DOMAIN tasks
    /\ \/ /\ ret' = MergeTopK(hits, call.args.k)
          /\ outcome' = [outcome EXCEPT !.failed = "none"]
          /\ ReturnFrame
       \/ Caught(outcome, "merge")
    /\ UNCHANGED << query, _query_expander, _metadata_extractor, _reranker,
                    settings, today, http, call, hits, context, calls >>

(***************************************************************************)
(* _search_single_query, run by the executor's worker threads.  A task     *)
(* stops between its calls to the embedding model and to the store, and    *)
(* between finding a handle None and assigning the instance it constructs. *)
(***************************************************************************)
\* the tasks a worker thread is running
Running == {t \in DOMAIN tasks : tasks[t].state \notin {"queued", "done"}}

\* a mutant of StartTask: a thread per task, whatever the pool size
StartTaskUnbounded(t) ==
    /\ pc \in {"gather", "shutdown"}
    /\ t \in DOMAIN tasks
    /\ tasks[t].state = "queued"
    /\ tasks' = [tasks EXCEPT ![t].state = "encode"]
    /\ UNCHANGED << query, handles, settings, today, http, pc, call, generated_queries,
                    collected, hits, ret, outcome, context, lastOp, made, calls >>

\* a worker thread takes the next task of the executor's queue: the pool
\* has at most max_workers threads, each running one task at a time
StartTask(t) ==
    /\ pc \in {"gather", "shutdown"}
    /\ t \in DOMAIN tasks
    /\ tasks[t].state = "queued"
    /\ \A u \in 1..(t - 1) : tasks[u].state # "queued"
    /\ Cardinality(Running) < _max_workers
    /\ tasks' = [tasks EXCEPT ![t].state = "encode"]
    /\ UNCHANGED << query, handles, settings, today, http, pc, call, generated_queries,
                    collected, hits, ret, outcome, context, lastOp, made, calls >>

\* a mutant of EncodeQuery: a search whose embedding call raises brings
\* the other searches of the call down with it
EncodeQueryAborting(t) ==
    /\ t \in DOMAIN tasks
    /\ tasks[t].state = "encode"
    /\ tasks' =
         IF _embedder = NoHandle
         THEN [tasks EXCEPT ![t].state = "make_embedder"]
         ELSE IF t \in call.bad
         THEN [u \in DOMAIN tasks |->
                  [tasks[u] EXCEPT !.state = "done", !.results = <<>>]]
         ELSE [tasks EXCEPT ![t].state = "search", ![t].embedder = _embedder,
                            ![t].vec = Encode(tasks[t].q),
                            ![t].filter = _construct_search_query(
                                tasks[t].collection_type, tasks[t].additional_filters)]
    /\ UNCHANGED << query, handles, settings, today, http, pc, call, generated_queries,
                    collected, hits, ret, outcome, context, lastOp, made, calls >>

\* self._get_embedder().encode(...) and the filter construction: the
\* handle is found None, or the embedding call raises and the outer except
\* returns [], or the sweep over the collections begins
EncodeQuery(t) ==
    /\ t \in DOMAIN tasks
    /\ tasks[t].state = "encode"
    /\ tasks' =
         IF _embedder = NoHandle
         THEN [tasks EXCEPT ![t].state = "make_embedder"]
         ELSE IF t \in call.bad
         THEN [tasks EXCEPT ![t].state = "done", ![t].embedder = _embedder,
                            ![t].results = <<>>]
         ELSE [tasks EXCEPT ![t].state = "search", ![t].embedder = _embedder,
                            ![t].vec = Encode(tasks[t].q),
                            ![t].filter = _construct_search_query(
                                tasks[t].collection_type, tasks[t].additional_filters)]
    /\ UNCHANGED << query, handles, settings, today, http, pc, call, generated_queries,
                    collected, hits, ret, outcome, context, lastOp, made, calls >>

\* _get_embedder after it found the handle None: a SentenceTransformer is
\* constructed and assigned
MakeEmbedder(t) ==
    /\ t \in DOMAIN tasks
    /\ tasks[t].state = "make_embedder"
    /\ made' = [made EXCEPT !.embedder = @ + 1]
    /\ _embedder' = Instance(made.embedder + 1)
    /\ tasks' = [tasks EXCEPT ![t].state = "encode"]
    /\ UNCHANGED << query, _client, _query_expander, _metadata_extractor, _reranker,
                    settings, today, http, pc, call, generated_queries, collected, hits,
                    ret, outcome, context, lastOp, calls >>

\* a mutant of LimitOf: each collection is asked for k hits
LimitUndivided(k) == k

\* a mutant of LimitOf: each collection is asked for one hit at least
LimitAtLeastOne(k) == Max(1, k \div Len(COLLECTION_TYPES))

\* limit=k // len(self.COLLECTION_TYPES)
LimitOf(k) == k \div Len(COLLECTION_TYPES)

\* the task after its turn of the loop over COLLECTION_TYPES, in which it
\* called the store: results is all_results after the turn
AfterCollection(task, results, client) ==
    [task EXCEPT !.results = results,
                 !.limits = Append(@, LimitOf(task.k)),
                 !.clients = IF client = NoHandle THEN @ ELSE @ \cup {client},
                 !.ci = @ + 1,
                 !.state = IF task.ci = Len(COLLECTION_TYPES) THEN "done" ELSE "search"]

\* a mutant of SearchCollection: without the inner try/except a store
\* failure reaches the outer except, and the search returns []
SearchCollectionAborting(t) ==
    /\ t \in DOMAIN tasks
    /\ tasks[t].state = "search"
    /\ tasks' =
         IF _client = NoHandle
         THEN [tasks EXCEPT ![t].state = "make_client"]
         ELSE IF tasks[t].ci \in call.down
         THEN [tasks EXCEPT ![t].state = "done", ![t].results = <<>>]
         ELSE [tasks EXCEPT ![t] = AfterCollection(tasks[t],
                  tasks[t].results \o StoreSearch(tasks[t].ci, tasks[t].vec, tasks[t].filter,
                      LimitOf(tasks[t].k)), _client)]
    /\ UNCHANGED << query, handles, settings, today, http, pc, call, generated_queries,
                    collected, hits, ret, outcome, context, lastOp, made, calls >>

\* one turn of the loop over COLLECTION_TYPES: the client handle is found
\* None, or the store raises and the collection is skipped, or its hits
\* are appended to all_results
SearchCollection(t) ==
    /\ t \in DOMAIN tasks
    /\ tasks[t].state = "search"
    /\ tasks' =
         IF _client = NoHandle
         THEN [tasks EXCEPT ![t].state = "make_client"]
         ELSE IF tasks[t].ci \in call.down
         THEN [tasks EXCEPT ![t] = AfterCollection(tasks[t], tasks[t].results, _client)]
         ELSE [tasks EXCEPT ![t] = AfterCollection(tasks[t],
                  tasks[t].results \o StoreSearch(tasks[t].ci, tasks[t].vec, tasks[t].filter,
                      LimitOf(tasks[t].k)), _client)]
    /\ UNCHANGED << query, handles, settings, today, http, pc, call, generated_queries,
                    collected, hits, ret, outcome, context, lastOp, made, calls >>

\* _get_client after it found the handle None: a QdrantDatabaseConnector
\* is constructed and assigned
MakeClient(t) ==
    /\ t \in DOMAIN tasks
    /\ tasks[t].state = "make_client"
    /\ made' = [made EXCEPT !.client = @ + 1]
    /\ _client' = Instance(made.client + 1)
    /\ tasks' = [tasks EXCEPT ![t].state = "search"]
    /\ UNCHANGED << query, _embedder, _query_expander, _metadata_extractor, _reranker,
                    settings, today, http, pc, call, generated_queries, collected, hits,
                    ret, outcome, context, lastOp, calls >>

(***************************************************************************)
(* rerank and set_query.                                                   *)
(***************************************************************************)
\* a mutant of RerankCaught: rerank without its try/except
RerankPropagated(stage, keep_top_k) ==
    /\ context' = <<>>
    /\ ret' = ret
    /\ lastOp' = [name |-> "rerank", raised |-> TRUE, failed |-> stage,
                  hits |-> ret, keep_top_k |-> keep_top_k]

\* a mutant of RerankCaught: the handler empties the list it was given
RerankCaughtClearing(stage, keep_top_k) ==
    /\ context' = <<>>
    /\ ret' = <<>>
    /\ lastOp' = [name |-> "rerank", raised |-> FALSE, failed |-> stage,
                  hits |-> ret, keep_top_k |-> keep_top_k]

\* the except clause of rerank: the exception is logged and [] returned;
\* the caller's hits are not touched
RerankCaught(stage, keep_top_k) ==
    /\ context' = <<>>
    /\ ret' = ret
    /\ lastOp' = [name |-> "rerank", raised |-> FALSE, failed |-> stage,
                  hits |-> ret, keep_top_k |-> keep_top_k]

\* a mutant of rerank: a hit without "content" is skipped and the others
\* are reranked
rerank_skipping(keep_top_k) ==
    /\ pc = "idle"
    /\ _reranker' = Loaded(_reranker)
    /\ ret' = ret
    /\ \/ \E response \in RerankResponses :
             /\ context' = RerankingOf(response)
             /\ lastOp' = [name |-> "rerank", raised |-> FALSE, failed |-> "none",
                           hits |-> ret, keep_top_k |-> keep_top_k]
       \/ RerankCaught("oracle", keep_top_k)
    /\ UNCHANGED << query, _client, _embedder, _query_expander, _metadata_extractor,
                    settings, today, http, pc, call, generated_queries, tasks, collected,
                    hits, outcome, made, calls >>

\* rerank(hits, keep_top_k) on the hits the last retrieve_top_k returned:
\* a payload without "content" raises KeyError before the reranker is
\* loaded; otherwise the oracle raises or its response is split
rerank(keep_top_k) ==
    /\ pc = "idle"
    /\ IF \E i \in 1..Len(ret) : "content" \notin DOMAIN ret[i].payload
       THEN /\ RerankCaught("content", keep_top_k)
            /\ UNCHANGED _reranker
       ELSE /\ _reranker' = Loaded(_reranker)
            /\ \/ \E response \in RerankResponses :
                     /\ context' = RerankingOf(response)
                     /\ ret' = ret
                     /\ lastOp' = [name |-> "rerank", raised |-> FALSE, failed |-> "none",
                                   hits |-> ret, keep_top_k |-> keep_top_k]
               \/ RerankCaught("oracle", keep_top_k)
    /\ UNCHANGED << query, _client, _embedder, _query_expander, _metadata_extractor,
                    settings, today, http, pc, call, generated_queries, tasks, collected,
                    hits, outcome, made, calls >>

\* a mutant of set_query: the embedding handle is kept
set_query_keeping(q) ==
    /\ pc = "idle"
    /\ query' = q
    /\ made' = [made EXCEPT !.dropped = TRUE]
    /\ lastOp' = [name |-> "set_query", query |-> q,
                  before |-> << _client, _query_expander, _metadata_extractor,
                                _reranker, _max_workers, _batch_size >>]
    /\ UNCHANGED << handles, settings, today, http, pc, call,
                    generated_queries, tasks, collected, hits, ret, outcome,
                    context, calls >>

\* set_query(query): the query is replaced and the embedder dropped
set_query(q) ==
    /\ pc = "idle"
    /\ query' = q
    /\ _embedder' = NoHandle
    /\ made' = [made EXCEPT !.dropped = TRUE]
    /\ lastOp' = [name |-> "set_query", query |-> q,
                  before |-> << _client, _query_expander, _metadata_extractor,
                                _reranker, _max_workers, _batch_size >>]
    /\ UNCHANGED << _client, _query_expander, _metadata_extractor, _reranker,
                    settings, today, http, pc, call, generated_queries, tasks, collected,
                    hits, ret, outcome, context, calls >>

(***************************************************************************)
(* The orchestrator: any sequence of calls from one caller, the search     *)
(* tasks of a call interleaved.                                            *)
(***************************************************************************)
Next ==
    \/ \E a \in CallArgs : retrieve_top_k(a)
    \/ Expand
    \/ Submit
    \/ \E t \in DOMAIN tasks : StartTask(t)
    \/ \E t \in DOMAIN tasks : EncodeQuery(t)
    \/ \E t \in DOMAIN tasks : MakeEmbedder(t)
    \/ \E t \in DOMAIN tasks : SearchCollection(t)
    \/ \E t \in DOMAIN tasks : MakeClient(t)
    \/ \E t \in DOMAIN tasks : Gather(t)
    \/ \E t \in DOMAIN tasks : GatherRaises(t)
    \/ ShutdownAndReturn
    \/ MergeAndReturn
    \/ \E keep_top_k \in KeepValues : rerank(keep_top_k)
    \/ \E q \in Queries : set_query(q)

Spec == Init /\ [][Next]_vars

(***************************************************************************)
(* One search of one query variant, on its own: every set of failing       *)
(* collections, with and without a filter.                                 *)
(***************************************************************************)
\* the arguments of the searches
SearchArgs ==
    { [k |-> k, n |-> 1, collection_type |-> f[1], additional_filters |-> f[2]] :
        k \in {0, 3, 5, 10},
        f \in { <<None, Nothing>>,
                <<"financial_news", Nothing>>,
                <<None, Some(<< [key |-> "author", value |-> "x"] >>)>>,
                <<"", Some(<<>>)>>,
                <<"financial_news", Some(<< [key |-> "author", value |-> "x"] >>)>>,
                <<"edgar_fillings", Some(<< [key |-> "author", value |-> "y"],
                                            [key |-> "content", value |-> "e2"] >>)>>,
                <<"blog", Nothing>> } }

\* the query variants searched
Variants == { <<"a">>, <<"b", "c">> }

InitSearch ==
    /\ \E q \in Queries : InitOrchestrator(q)
    /\ today \in Todays
    /\ http = NoRequest
    /\ pc = "gather"
    /\ \E a \in SearchArgs, d \in SUBSET Collections, b \in BadEmbeddings :
          call = [args |-> a, down |-> d, bad |-> b]
    /\ \E v \in Variants :
          /\ generated_queries = <<v>>
          /\ tasks = << NewTask(v, call.args.collection_type,
                                call.args.additional_filters, call.args.k) >>
          /\ outcome = [raised |-> FALSE, failed |-> "running", expansion |-> "returned",
                        searched |-> <<v>>]
    /\ collected = {}
    /\ hits = <<>>
    /\ ret = <<>>
    /\ context = <<>>
    /\ lastOp = [name |-> "retrieve_top_k"]
    /\ made = [embedder |-> 0, client |-> 0, dropped |-> FALSE]
    /\ calls = 1

NextSearch ==
    \/ \E t \in DOMAIN tasks : StartTask(t)
    \/ \E t \in DOMAIN tasks : EncodeQuery(t)
    \/ \E t \in DOMAIN tasks : MakeEmbedder(t)
    \/ \E t \in DOMAIN tasks : SearchCollection(t)
    \/ \E t \in DOMAIN tasks : MakeClient(t)

SpecSearch == InitSearch /\ [][NextSearch]_vars

(***************************************************************************)
(* The merge step on its own: every gathered list of up to MaxHits hits    *)
(* and every k from 0 to one more than that.                               *)
(***************************************************************************)
MergeHits ==
    { [score |-> sc, payload |-> [content |-> c]] : sc \in 0..MaxScore, c \in {"p", "q"} }

HitLists == UNION { [1..len -> MergeHits] : len \in 0..MaxHits }

InitMerge ==
    /\ \E q \in Queries : InitOrchestrator(q)
    /\ today \in Todays
    /\ http = NoRequest
    /\ pc = "gather"
    /\ \E k \in 0..(MaxHits + 1) :
          call = [args |-> [k |-> k, n |-> 1, collection_type |-> None,
                            additional_filters |-> Nothing],
                  down |-> {}, bad |-> {}]
    /\ generated_queries = <<>>
    /\ tasks = <<>>
    /\ collected = {}
    /\ hits \in HitLists
    /\ ret = <<>>
    /\ outcome = [raised |-> FALSE, failed |-> "running", expansion |-> "returned",
                  searched |-> <<>>]
    /\ context = <<>>
    /\ lastOp = [name |-> "retrieve_top_k"]
    /\ made = [embedder |-> 0, client |-> 0, dropped |-> FALSE]
    /\ calls = 1

NextMerge == MergeAndReturn

SpecMerge == InitMerge /\ [][NextMerge]_vars

(***************************************************************************)
(* Properties.                                                             *)
(***************************************************************************)
Stages == {"extract", "expand", "executor", "gather", "merge"}

\* C1: no exception escapes retrieve_top_k, and a call in which the
\* metadata extraction, the expansion, the executor, the gathering or the
\* merge raised has returned the empty list.
C1_NoExceptionEscapes ==
    /\ outcome.raised = FALSE
    /\ (pc = "idle" /\ outcome.failed \in Stages) => ret = <<>>

\* the merge raised after hits had been gathered, and the call returned []
C1_Witness ==
    /\ pc = "idle"
    /\ outcome.failed = "merge"
    /\ hits # <<>>
    /\ ret = <<>>

RECURSIVE SurvivorHits(_, _)
\* the hits of the first upto collections, in enumeration order, the
\* collections whose search raises left out
SurvivorHits(task, upto) ==
    IF upto = 0 THEN <<>>
    ELSE SurvivorHits(task, upto - 1) \o
         (IF upto \in call.down THEN <<>>
          ELSE StoreSearch(upto, Encode(task.q),
                   _construct_search_query(call.args.collection_type,
                                           call.args.additional_filters),
                   call.args.k \div Len(COLLECTION_TYPES)))

\* C2: in one search, whatever collections fail, the result is the hits of
\* the collections that did not fail, in enumeration order; a search whose
\* embedding succeeded ends only after the fifth collection.
C2_StoreFailureContained ==
    \A t \in DOMAIN tasks :
        /\ tasks[t].results = SurvivorHits(tasks[t], tasks[t].ci - 1)
        /\ (tasks[t].state = "done" /\ t \notin call.bad)
              => tasks[t].ci = Len(COLLECTION_TYPES) + 1

\* a finished search with one collection failing and the hits of the other four
C2_Witness ==
    \E t \in DOMAIN tasks :
        /\ tasks[t].state = "done"
        /\ Cardinality(call.down) = 1
        /\ Len(tasks[t].results) = Len(COLLECTION_TYPES) - 1

\* C3 as stated: when the expansion oracle raised, the call still searched
\* one variant, the stored query.
C3_FallsBackToOriginalQuery ==
    (pc = "idle" /\ outcome.expansion = "raised") => Len(outcome.searched) = 1

\* C3 as amended: when the expansion oracle raises, no search is submitted
\* and the call returns the empty list, raising nothing; when the expander
\* returns no variant, no search is submitted and the result is empty too.
C3_ExpansionFailureEmptiesResult ==
    /\ outcome.expansion = "raised" =>
          /\ pc = "idle"
          /\ outcome.searched = <<>>
          /\ outcome.failed = "expand"
          /\ outcome.raised = FALSE
          /\ ret = <<>>
    /\ (pc = "idle" /\ outcome.expansion = "returned" /\ outcome.searched = <<>>)
          => ret = <<>>

\* the expansion oracle raised and the call returned [] without a search
C3_Witness ==
    /\ pc = "idle"
    /\ outcome.expansion = "raised"
    /\ outcome.searched = <<>>
    /\ ret = <<>>

\* C4: when the reranking oracle raised, rerank returned the empty list,
\* raised nothing, and the hits it was given are as they were.
C4_RerankDegrades ==
    (lastOp.name = "rerank" /\ lastOp.failed = "oracle") =>
        /\ context = <<>>
        /\ lastOp.raised = FALSE
        /\ ret = lastOp.hits

\* the oracle raised on a rerank of at least two hits
C4_Witness ==
    /\ lastOp.name = "rerank"
    /\ lastOp.failed = "oracle"
    /\ Len(ret) >= 2
    /\ context = <<>>

\* a hit of the list has no "content" in its payload
LacksContent(hs) == \E i \in 1..Len(hs) : "content" \notin DOMAIN hs[i].payload

\* C5 as stated: rerank on a hit without content raises to its caller.
C5_MissingContentRaises ==
    (lastOp.name = "rerank" /\ LacksContent(lastOp.hits)) => lastOp.raised = TRUE

\* C5 as amended: rerank on a hit without content catches the KeyError
\* itself and returns the empty list; no hit is skipped to rerank the rest.
C5_MissingContentReturnsEmpty ==
    (lastOp.name = "rerank" /\ LacksContent(lastOp.hits)) =>
        /\ lastOp.raised = FALSE
        /\ lastOp.failed = "content"
        /\ context = <<>>

\* rerank was given several hits, one of them without content
C5_Witness ==
    /\ lastOp.name = "rerank"
    /\ LacksContent(lastOp.hits)
    /\ Len(lastOp.hits) >= 2
    /\ context = <<>>

\* the tasks inside a call to the embedding model or to the store
InFlight == {t \in DOMAIN tasks : tasks[t].state \in {"encode", "search"}}

\* C6: the searches running, and so the embedding and store calls in
\* flight, are never more than the worker-pool size.
C6_BoundedConcurrency ==
    /\ Cardinality(Running) <= _max_workers
    /\ Cardinality(InFlight) <= _max_workers

\* the pool is full while a task waits in the queue
C6_Witness ==
    /\ _max_workers >= 1
    /\ Cardinality(Running) = _max_workers
    /\ \E t \in DOMAIN tasks : tasks[t].state = "queued"

\* C7 as stated: during one retrieve_top_k call each of the two handles is
\* constructed at most once, and all searches use the same instance.
C7_HandlesConstructedOnce ==
    /\ made.embedder <= 1
    /\ made.client <= 1
    /\ \A t, u \in DOMAIN tasks :
          (tasks[t].embedder # NoHandle /\ tasks[u].embedder # NoHandle)
             => tasks[t].embedder = tasks[u].embedder
    /\ Cardinality(UNION {tasks[t].clients : t \in DOMAIN tasks}) <= 1

\* how many times a hit occurs in a list
Count(hs, h) == Cardinality({i \in 1..Len(hs) : hs[i] = h})

Range(hs) == {hs[i] : i \in 1..Len(hs)}

\* a call that reached the merge and returned its result
Merged == pc = "idle" /\ outcome.failed = "none"

\* C8: the merged list has min(k, gathered hits) elements, taken from the
\* gathered hits, in non-increasing score order, and no hit left out has a
\* higher score than a hit returned.
C8_MergeTopK ==
    Merged =>
        /\ Len(ret) = Min(call.args.k, Len(hits))
        /\ \A h \in Range(ret) : Count(ret, h) <= Count(hits, h)
        /\ \A i, j \in 1..Len(ret) : i < j => ret[i].score >= ret[j].score
        /\ \A h \in Range(hits) :
              Count(ret, h) < Count(hits, h) =>
                  \A i \in 1..Len(ret) : ret[i].score >= h.score

\* a merge that had to truncate: more hits gathered than k, and k > 0
C8_Witness ==
    /\ Merged
    /\ call.args.k > 0
    /\ Len(hits) > call.args.k
    /\ Len(ret) = call.args.k

\* the hits of one score, in the order of the list
OfScore(hs, sc) == SelectSeq(hs, LAMBDA h : h.score = sc)

IsPrefix(a, b) == Len(a) <= Len(b) /\ SubSeq(b, 1, Len(a)) = a

\* C9: hits of equal score are in the merged list in the order in which
\* they were gathered.
C9_MergeStable ==
    Merged =>
        \A h \in Range(hits) : IsPrefix(OfScore(ret, h.score), OfScore(hits, h.score))

\* two different hits of one score were gathered and both returned
C9_Witness ==
    /\ Merged
    /\ \E i, j \in 1..Len(ret) :
          i < j /\ ret[i].score = ret[j].score /\ ret[i] # ret[j]

\* C10: after set_query(q) the stored query is q, the embedder handle is
\* None and the other handles and the settings are as before; the searches
\* of the call that follows use no embedder made before the set_query.
C10_SetQuery ==
    /\ lastOp.name = "set_query" =>
          /\ query = lastOp.query
          /\ _embedder = NoHandle
          /\ << _client, _query_expander, _metadata_extractor, _reranker,
                _max_workers, _batch_size >> = lastOp.before
    /\ made.dropped => \A t \in DOMAIN tasks : tasks[t].embedder # Old

\* after a call that loaded both handles and a set_query, a search of the
\* next call runs with an embedder of its own call
C10_Witness ==
    /\ made.dropped
    /\ _client = Old
    /\ \E t \in DOMAIN tasks : tasks[t].embedder \notin {NoHandle, Old}

(***************************************************************************)
(* The metadata extraction on its own: the first step of retrieve_top_k on *)
(* queries with no, one and several phrases of the table, on several days. *)
(***************************************************************************)
\* the queries given to the extraction
ExtractQueries ==
    {
      \* ""
      [text |-> <<>>,
       dates |-> <<>>],
      \* "rates"
      [text |-> <<"r", "a", "t", "e", "s">>,
       dates |-> <<>>],
      \* "Recent rates"
      [text |-> <<"R", "e", "c", "e", "n", "t", " ", "r", "a", "t", "e", "s">>,
       dates |-> <<>>],
      \* "YTD returns"
      [text |-> <<"Y", "T", "D", " ", "r", "e", "t", "u", "r", "n", "s">>,
       dates |-> <<>>],
      \* "last year versus this month"
      [text |-> <<"l", "a", "s", "t", " ", "y", "e", "a", "r", " ", "v", "e", "r", "s", "u", "s", " ", "t", "h", "i", "s", " ", "m", "o", "n", "t", "h">>,
       dates |-> <<>>],
      \* "currently flat"
      [text |-> <<"c", "u", "r", "r", "e", "n", "t", "l", "y", " ", "f", "l", "a", "t">>,
       dates |-> <<>>],
      \* "last months"
      [text |-> <<"l", "a", "s", "t", " ", "m", "o", "n", "t", "h", "s">>,
       dates |-> <<>>],
      \* "This Week"
      [text |-> <<"T", "h", "i", "s", " ", "W", "e", "e", "k">>,
       dates |-> <<>>],
      \* "past quarter or this quarter"
      [text |-> <<"p", "a", "s", "t", " ", "q", "u", "a", "r", "t", "e", "r", " ", "o", "r", " ", "t", "h", "i", "s", " ", "q", "u", "a", "r", "t", "e", "r">>,
       dates |-> <<>>],
      \* "recent ytd moves"
      [text |-> <<"r", "e", "c", "e", "n", "t", " ", "y", "t", "d", " ", "m", "o", "v", "e", "s">>,
       dates |-> <<>>],
      \* "last 6 months"
      [text |-> <<"l", "a", "s", "t", " ", "6", " ", "m", "o", "n", "t", "h", "s">>,
       dates |-> <<>>],
      \* "yesterday"
      [text |-> <<"y", "e", "s", "t", "e", "r", "d", "a", "y">>,
       dates |-> <<>>] }

\* the days the extraction runs on: the first of January (a Thursday), a
\* Monday, days inside the first and the second quarter, the last day
ExtractTodays == {0, 4, 40, 100, 364}

InitExtract ==
    /\ \E q \in ExtractQueries : InitOrchestrator(q)
    /\ today \in ExtractTodays
    /\ http = NoRequest
    /\ pc = "idle"
    /\ call = NoCall
    /\ generated_queries = <<>>
    /\ tasks = <<>>
    /\ collected = {}
    /\ hits = <<>>
    /\ ret = <<>>
    /\ outcome = [raised |-> FALSE, failed |-> "none", expansion |-> "none",
                  searched |-> <<>>]
    /\ context = <<>>
    /\ lastOp = [name |-> "init"]
    /\ made = [embedder |-> 0, client |-> 0, dropped |-> FALSE]
    /\ calls = 0

NextExtract == \E a \in CallArgs : retrieve_top_k(a)

SpecExtract == InitExtract /\ [][NextExtract]_vars

\* the entries of the table whose phrase occurs in the lower-cased text
MatchingEntries(text) ==
    {i \in 1..Len(DATE_RANGE_KEYWORDS) :
        Contains(Lower(text), DATE_RANGE_KEYWORDS[i].phrase)}

\* the phrase stands in the text from position a on
OccursAt(text, phrase, a) ==
    /\ a + Len(phrase) - 1 <= Len(text)
    /\ SubSeq(text, a, a + Len(phrase) - 1) = phrase

\* the step of retrieve_top_k that runs extract_metadata on the stored query
Extracts == pc = "idle" /\ pc' = "expand"

\* C11: the date range extract_metadata computes is that of the first entry
\* of the table, in table order, whose phrase is a substring of the
\* lower-cased query: no entry before it matches, the entries after it do
\* not count, and where a phrase of the table contains another one and
\* occurs in the query, the range is that of the containing phrase.
C11_FirstTableEntryWins ==
    [][Extracts =>
         LET matching == MatchingEntries(query.text)
             result == extract_metadata(query, today).date_range
         IN  /\ query' = extract_metadata(query, today).modified_query
             /\ matching # {} =>
                   \E i \in matching :
                      /\ \A j \in 1..(i - 1) : j \notin matching
                      /\ result = Some(RangeOf(DATE_RANGE_KEYWORDS[i], today))
                      /\ query'.dates = Append(query.dates, result[1])
             /\ \A i, j \in matching :
                   (i # j /\ Contains(DATE_RANGE_KEYWORDS[j].phrase,
                                      DATE_RANGE_KEYWORDS[i].phrase))
                   => result = Some(RangeOf(DATE_RANGE_KEYWORDS[j], today))
    ]_vars

\* the extraction has run on a query in which two phrases of the table
\* occur, the one that comes first in the query being the later one in the
\* table and giving another range
C11_Witness ==
    /\ pc = "expand"
    /\ Len(query.dates) = 1
    /\ \E i, j \in MatchingEntries(query.text) :
          /\ i < j
          /\ RangeOf(DATE_RANGE_KEYWORDS[i], today) # RangeOf(DATE_RANGE_KEYWORDS[j], today)
          /\ query.dates[1] = RangeOf(DATE_RANGE_KEYWORDS[i], today)
          /\ \E a, b \in 1..Len(query.text) :
                /\ a < b
                /\ OccursAt(Lower(query.text), DATE_RANGE_KEYWORDS[j].phrase, a)
                /\ OccursAt(Lower(query.text), DATE_RANGE_KEYWORDS[i].phrase, b)

\* C12: extract_metadata returns for every query, in one of two ways: no
\* phrase of the table occurs in the query, modified_query is the input and
\* date_range is null; or date_range is not null, its start_date is not
\* after its end_date, its end_date is today, and modified_query is the
\* input followed by exactly one date clause, that of date_range.
C12_TwoOutcomes ==
    [][Extracts =>
         LET metadata == extract_metadata(query, today)
         IN  /\ query' = metadata.modified_query
             /\ IF MatchingEntries(query.text) = {}
                THEN /\ metadata.date_range = Nothing
                     /\ query' = query
                ELSE /\ metadata.date_range # Nothing
                     /\ metadata.date_range[1].start_date <= metadata.date_range[1].end_date
                     /\ metadata.date_range[1].end_date = today
                     /\ query'.text = query.text
                     /\ Len(query'.dates) = Len(query.dates) + 1
                     /\ SubSeq(query'.dates, 1, Len(query.dates)) = query.dates
                     /\ query'.dates[Len(query'.dates)] = metadata.date_range[1]
    ]_vars

\* the extraction has appended a clause whose range starts before today,
\* on a query in which a phrase of the table occurs
C12_Witness ==
    /\ pc = "expand"
    /\ MatchingEntries(query.text) # {}
    /\ Len(query.dates) = 1
    /\ query.dates[1].start_date < query.dates[1].end_date
    /\ query.dates[1].end_date = today

\* the tasks whose search has constructed its filter
Filtered == {t \in DOMAIN tasks :
                tasks[t].state = "search" \/ (tasks[t].state = "done" /\ t \notin call.bad)}

\* the key/value pairs of the additional filters of the call
FilterItems ==
    IF call.args.additional_filters = Nothing THEN <<>>
    ELSE call.args.additional_filters[1]

\* C13: the filter a search constructs is a conjunction (must) of exactly
\* one equality condition on "type" with the collection type, when one is
\* given, and exactly one equality condition per key of the additional
\* filters, and nothing else; with no collection type and no or empty
\* additional filters there is no filter at all.
C13_FilterConditions ==
    \A t \in Filtered :
        LET given == call.args.collection_type \notin {None, ""}
            typeCond == [key |-> "type", value |-> call.args.collection_type]
            filter == tasks[t].filter
        IN  IF ~given /\ FilterItems = <<>>
            THEN filter = Nothing
            ELSE /\ filter # Nothing
                 /\ DOMAIN filter[1] = {"must"}
                 /\ Len(filter[1].must) = (IF given THEN 1 ELSE 0) + Len(FilterItems)
                 /\ given => Cardinality({i \in DOMAIN filter[1].must :
                                             filter[1].must[i] = typeCond}) = 1
                 /\ \A j \in DOMAIN FilterItems :
                       Cardinality({i \in DOMAIN filter[1].must :
                                       filter[1].must[i] = FilterItems[j]}) = 1

\* a search for financial_news with the additional filter author = x has
\* constructed its filter
C13_Witness ==
    /\ call.args.collection_type = "financial_news"
    /\ FilterItems = << [key |-> "author", value |-> "x"] >>
    /\ \E t \in Filtered : tasks[t].filter # Nothing /\ Len(tasks[t].filter[1].must) = 2

\* C14: a collection type that is not one of COLLECTION_TYPES leaves the
\* search unfiltered: the filter a search constructs has no condition on
\* "type".
C14_UnknownTypeUnfiltered ==
    \A t \in Filtered :
        call.args.collection_type \notin
            ({None} \cup {COLLECTION_TYPES[i] : i \in Collections})
        => \/ tasks[t].filter = Nothing
           \/ \A i \in DOMAIN tasks[t].filter[1].must :
                 tasks[t].filter[1].must[i].key # "type"

\* C15: every store call of a search is issued with limit floor(k / 5), so
\* (the store returning at most limit hits per call) a search never holds
\* more hits than that limit times the store calls it has issued, at most
\* k when it ends, and retrieve_top_k gathers at most k hits per search
\* submitted before it truncates.
C15_LimitBoundsVolume ==
    /\ \A t \in DOMAIN tasks :
          /\ \A i \in DOMAIN tasks[t].limits :
                /\ 5 * tasks[t].limits[i] <= tasks[t].k
                /\ tasks[t].k < 5 * (tasks[t].limits[i] + 1)
          /\ tasks[t].state = "done" /\ t \notin call.bad
                => Len(tasks[t].limits) = Len(COLLECTION_TYPES)
          /\ \A i \in DOMAIN tasks[t].limits :
                Len(tasks[t].results) <= Len(tasks[t].limits) * tasks[t].limits[i]
          /\ Len(tasks[t].results) <= tasks[t].k
    /\ Len(hits) <= call.args.k * Len(outcome.searched)

\* two searches were submitted with k = 5, the store had a hit for every
\* call, and k hits of each search have been gathered
C15_Witness ==
    /\ pc = "gather"
    /\ call.args.k = 5
    /\ Len(tasks) = 2
    /\ collected = DOMAIN tasks
    /\ \A t \in DOMAIN tasks : tasks[t].limits = <<1, 1, 1, 1, 1>>
    /\ Len(hits) = 10

(***************************************************************************)
(* The query expansion on its own: the expansion step of retrieve_top_k    *)
(* on every response of up to MaxResponse characters.                      *)
(***************************************************************************)
\* the characters of the responses: letters, the separator, a space, a
\* newline and a backslash
ResponseChars == {"a", "n", separator, " ", "\n", "\\"}

\* every response of the language model of up to MaxResponse characters
AllResponses == UNION { [1..len -> ResponseChars] : len \in 0..MaxResponse }

\* the values of to_expand_to_n_queries
ExpandValues == {1, 2, 3}

InitExpand ==
    /\ \E q \in Queries : InitOrchestrator(q)
    /\ today \in Todays
    /\ http = NoRequest
    /\ pc = "expand"
    /\ \E n \in ExpandValues :
          call = [args |-> [k |-> 5, n |-> n, collection_type |-> None,
                            additional_filters |-> Nothing],
                  down |-> {}, bad |-> {}]
    /\ generated_queries = <<>>
    /\ tasks = <<>>
    /\ collected = {}
    /\ hits = <<>>
    /\ ret = <<>>
    /\ outcome = [raised |-> FALSE, failed |-> "running", expansion |-> "none",
                  searched |-> <<>>]
    /\ context = <<>>
    /\ lastOp = [name |-> "retrieve_top_k"]
    /\ made = [embedder |-> 0, client |-> 0, dropped |-> FALSE]
    /\ calls = 1

NextExpand == ExpandOn(AllResponses)

SpecExpand == InitExpand /\ [][NextExpand]_vars

\* C16: whatever the language model responds, the expander returns at most
\* n queries (n = to_expand_to_n_queries), none of them empty once its
\* whitespace is trimmed.
C16_ExpansionContract ==
    pc = "submit" =>
        /\ Len(generated_queries) <= call.args.n
        /\ \A i \in DOMAIN generated_queries :
              Strip(generated_queries[i], Whitespace) # <<>>

\* C17: whatever the language model responds, rerank returns at most
\* keep_top_k passages.
C17_RerankBounded ==
    lastOp.name = "rerank" => Len(context) <= lastOp.keep_top_k

(***************************************************************************)
(* POST /api/query (backend/api/main.py): process_query constructs an      *)
(* orchestrator for the request, calls retrieve_top_k and then rerank on   *)
(* it, and answers.  A request is well formed: FastAPI has validated it    *)
(* against QueryRequest.                                                   *)
(***************************************************************************)
\* the requests: the defaults of QueryRequest, the request of test_query,
\* and one with a collection type and a filter
Requests ==
    { [query |-> q, collection_type |-> f[1], additional_filters |-> f[2],
       top_k |-> f[3], expand_n_query |-> 2, keep_top_k |-> f[4]] :
        q \in Queries,
        f \in { <<None, Nothing, 3, 3>>,
                <<None, Nothing, 5, 3>>,
                <<"financial_news", Some(<< [key |-> "author", value |-> "y"] >>), 5, 1>> } }

\* the arguments process_query gives retrieve_top_k: collection_type is
\* None whatever the request says
RetrieveArgs(request) ==
    [k |-> request.top_k, n |-> request.expand_n_query, collection_type |-> None,
     additional_filters |-> request.additional_filters]

\* process_query after retriever = VectorRetriever(query=request.query)
InitApi ==
    /\ \E request \in Requests :
          /\ InitOrchestrator(request.query)
          /\ http = [request |-> request, status |-> 0, context |-> <<>>]
    /\ today \in Todays
    /\ pc = "idle"
    /\ call = NoCall
    /\ generated_queries = <<>>
    /\ tasks = <<>>
    /\ collected = {}
    /\ hits = <<>>
    /\ ret = <<>>
    /\ outcome = [raised |-> FALSE, failed |-> "none", expansion |-> "none",
                  searched |-> <<>>]
    /\ context = <<>>
    /\ lastOp = [name |-> "init"]
    /\ made = [embedder |-> 0, client |-> 0, dropped |-> FALSE]
    /\ calls = 0

\* hits = retriever.retrieve_top_k(...)
process_query_retrieve ==
    /\ http.status = 0
    /\ calls = 0
    /\ retrieve_top_k(RetrieveArgs(http.request))

\* context = retriever.rerank(hits=hits, keep_top_k=request.keep_top_k),
\* once retrieve_top_k has returned
process_query_rerank ==
    /\ http.status = 0
    /\ calls = 1
    /\ lastOp.name = "retrieve_top_k"
    /\ ~outcome.raised
    /\ rerank(http.request.keep_top_k)

\* a mutant of process_query_respond: a request for which nothing was
\* retrieved is answered with an error
process_query_respond_strict ==
    /\ http.status = 0
    /\ pc = "idle"
    /\ calls = 1
    /\ lastOp.name \in {"retrieve_top_k", "rerank"}
    /\ http' = IF lastOp.name = "retrieve_top_k" \/ ret = <<>>
               THEN [http EXCEPT !.status = 500]
               ELSE [http EXCEPT !.status = 200,
                                 !.context = IF lastOp.raised THEN <<>> ELSE context]
    /\ UNCHANGED << query, handles, settings, today, pc, call, generated_queries,
                    tasks, collected, hits, ret, outcome, context, lastOp, made, calls >>

\* the response: HTTPException(500) when retrieve_top_k raised; otherwise
\* 200 with {"context": context}, context being [] when rerank raised
process_query_respond ==
    /\ http.status = 0
    /\ pc = "idle"
    /\ calls = 1
    /\ IF lastOp.name = "retrieve_top_k"
       THEN /\ outcome.raised
            /\ http' = [http EXCEPT !.status = 500]
       ELSE /\ lastOp.name = "rerank"
            /\ http' = [http EXCEPT !.status = 200,
                                    !.context = IF lastOp.raised THEN <<>> ELSE context]
    /\ UNCHANGED << query, handles, settings, today, pc, call, generated_queries,
                    tasks, collected, hits, ret, outcome, context, lastOp, made, calls >>

NextApi ==
    \/ process_query_retrieve
    \/ Expand
    \/ Submit
    \/ \E t \in DOMAIN tasks : StartTask(t)
    \/ \E t \in DOMAIN tasks : EncodeQuery(t)
    \/ \E t \in DOMAIN tasks : MakeEmbedder(t)
    \/ \E t \in DOMAIN tasks : SearchCollection(t)
    \/ \E t \in DOMAIN tasks : MakeClient(t)
    \/ \E t \in DOMAIN tasks : Gather(t)
    \/ \E t \in DOMAIN tasks : GatherRaises(t)
    \/ ShutdownAndReturn
    \/ MergeAndReturn
    \/ process_query_rerank
    \/ process_query_respond

SpecApi == InitApi /\ [][NextApi]_vars

\* C18: a request is answered with status 200 and a list as context, also
\* when the expansion oracle, a collection of the store or the reranking
\* oracle failed while it was served; and a request whose retrieval and
\* reranking have ended can be answered.
C18_AlwaysOk ==
    /\ http.status # 0 =>
          /\ http.status = 200
          /\ DOMAIN http.context = 1..Len(http.context)
          /\ lastOp.name = "rerank"
          /\ lastOp.failed # "none" => http.context = <<>>
    /\ http.status = 0 /\ pc = "idle" /\ calls = 1 => ~outcome.raised

\* a request has been answered with 200 and an empty context after a
\* collection of the store failed during its searches and the reranking
\* oracle raised
C18_Witness ==
    /\ http.status = 200
    /\ http.context = <<>>
    /\ call.down # {}
    /\ Len(outcome.searched) > 0
    /\ lastOp.name = "rerank"
    /\ lastOp.failed = "oracle"

\* the arguments a search task was submitted with
SubmittedWith(task) ==
    [q |-> task.q, collection_type |-> task.collection_type,
     additional_filters |-> task.additional_filters, k |-> task.k]

\* C19: retrieve_top_k takes its steps in order.  The extraction replaces
\* the stored query by modified_query before the expander is called; the
\* expander is given that stored query; searches are submitted only by the
\* step that follows an expansion that returned, one per variant and in
\* the expander's order, each with its variant and the collection_type,
\* additional_filters and k of the call; and a task keeps its arguments.
C19_StepsInOrder ==
    [][/\ pc' = "expand" =>
             /\ pc = "idle"
             /\ query' = extract_metadata(query, today).modified_query
             /\ tasks' = <<>>
       /\ pc' = "submit" =>
             /\ pc = "expand"
             /\ query' = query
             /\ lastOp'.expanded = query
             /\ outcome'.expansion = "returned"
             /\ tasks' = <<>>
       /\ (tasks' # <<>> /\ tasks = <<>>) =>
             /\ pc = "submit"
             /\ outcome.expansion = "returned"
             /\ query = lastOp.expanded
             /\ Len(tasks') = Len(generated_queries)
             /\ \A t \in DOMAIN tasks' :
                   SubmittedWith(tasks'[t]) =
                       [q |-> generated_queries[t],
                        collection_type |-> call.args.collection_type,
                        additional_filters |-> call.args.additional_filters,
                        k |-> call.args.k]
       /\ (tasks' # <<>> /\ tasks # <<>>) =>
             /\ DOMAIN tasks' = DOMAIN tasks
             /\ \A t \in DOMAIN tasks : SubmittedWith(tasks'[t]) = SubmittedWith(tasks[t])
    ]_vars

\* two searches run for a call with a collection type and a filter, on a
\* query that the extraction rewrote before the expander was given it
C19_Witness ==
    /\ pc = "gather"
    /\ Len(tasks) = 2
    /\ tasks[1].q # tasks[2].q
    /\ call.args.collection_type = "financial_news"
    /\ \A t \in DOMAIN tasks : tasks[t].collection_type = "financial_news"
                               /\ tasks[t].additional_filters # Nothing
    /\ query.dates # <<>>
    /\ lastOp.expanded = query

RECURSIVE CountCollected(_, _)
\* how many times a hit occurs in the results of the collected tasks among
\* the first n
CountCollected(h, n) ==
    IF n = 0 THEN 0
    ELSE CountCollected(h, n - 1) +
         (IF n \in collected THEN Count(tasks[n].results, h) ELSE 0)

\* the hits of hs and of the results of all tasks
AllHits(hs) == Range(hs) \cup UNION {Range(tasks[t].results) : t \in DOMAIN tasks}

\* C20: the gather loses nothing.  While the results are gathered, hits
\* holds every hit exactly as many times as the results of the searches
\* collected so far do, in whatever order the searches ended; the list
\* given to the merge is that of all the searches submitted; and the call
\* returns, merged list or exception, only when every search submitted has
\* ended.
C20_GatherLosesNothing ==
    [][/\ pc \in {"gather", "shutdown"} =>
             /\ collected \subseteq {t \in DOMAIN tasks : tasks[t].state = "done"}
             /\ \A h \in AllHits(hits) : Count(hits, h) = CountCollected(h, Len(tasks))
       /\ (pc \in {"gather", "shutdown"} /\ pc' = "idle") =>
             /\ \A t \in DOMAIN tasks : tasks[t].state = "done"
             /\ Len(tasks) = Len(outcome.searched)
             /\ hits' = hits
       /\ (pc = "gather" /\ pc' = "idle") =>
             /\ collected = DOMAIN tasks
             /\ outcome'.failed = "none" => ret' = MergeTopK(hits, call.args.k)
    ]_vars

\* both searches of a call are collected, the second one submitted first,
\* each with hits of its own
C20_Witness ==
    /\ pc = "gather"
    /\ Len(tasks) = 2
    /\ collected = DOMAIN tasks
    /\ tasks[1].results # <<>>
    /\ tasks[2].results # tasks[1].results
    /\ hits = tasks[2].results \o tasks[1].results

\* the segments of a response between its separators, each without its
\* leading and trailing whitespace, the empty ones left out
TrimmedSegments(response) ==
    LET segments == Split(response)
    IN  NonEmpty([i \in 1..Len(segments) |-> Strip(segments[i], Whitespace)])

\* C21: the variants the expander returns are the separator-delimited
\* segments of the response with their leading and trailing whitespace (and
\* nothing else) removed, the segments of whitespace alone dropped.
C21_OnlyWhitespaceTrimmed ==
    pc = "submit" => generated_queries = TrimmedSegments(lastOp.response)

RECURSIVE SoundLen(_)
\* the number of hits of the searches among the first n whose embedding
\* call does not raise
SoundLen(n) ==
    IF n = 0 THEN 0
    ELSE SoundLen(n - 1) + (IF n \in call.bad THEN 0 ELSE Len(tasks[n].results))

\* C22: a search whose embedding call raises ends with no hits, without
\* searching a collection and without raising; the searches of the other
\* variants run their whole sweep, and the list that is merged and
\* returned holds their hits, all of them and nothing else.
C22_EmbeddingFailureIsolated ==
    [][/\ \A t \in DOMAIN tasks \cap call.bad :
             /\ tasks[t].results = <<>>
             /\ tasks[t].limits = <<>>
             /\ tasks[t].state \notin {"search", "make_client"}
       /\ outcome.raised = FALSE
       /\ (pc = "gather" /\ pc' = "idle" /\ outcome'.failed = "none") =>
             /\ \A t \in DOMAIN tasks \ call.bad :
                   /\ tasks[t].results = SurvivorHits(tasks[t], Len(COLLECTION_TYPES))
                   /\ \A h \in Range(tasks[t].results) :
                         Count(hits, h) >= Count(tasks[t].results, h)
             /\ Len(hits) = SoundLen(Len(tasks))
             /\ ret' = MergeTopK(hits, call.args.k)
    ]_vars

\* of the two searches of a call the first one's embedding call raised and
\* the second one's hits, and no others, have been gathered
C22_Witness ==
    /\ pc = "gather"
    /\ Len(tasks) = 2
    /\ call.bad = {1}
    /\ collected = DOMAIN tasks
    /\ tasks[1].results = <<>>
    /\ tasks[2].results # <<>>
    /\ hits = tasks[2].results

\* C23: the rewrite of the stored query is idempotent: however many
\* retrieve_top_k calls were made since the query was set, the stored query
\* is the query that was set followed by at most one date clause, that of a
\* single extraction.
C23_RewriteIdempotent ==
    /\ Len(query.dates) <= 1
    /\ query.dates # <<>> =>
          query = extract_metadata([text |-> query.text, dates |-> <<>>],
                                   today).modified_query

(***************************************************************************)
(* retrieve_top_k with k below the number of collection types: every k     *)
(* from 0 to 4, with and without a filter, on one orchestrator.            *)
(***************************************************************************)
\* the arguments of the calls with a small k
SmallKArgs ==
    { [k |-> k, n |-> 3, collection_type |-> f[1], additional_filters |-> f[2]] :
        k \in 0..(Len(COLLECTION_TYPES) - 1),
        f \in { <<None, Nothing>>,
                <<"financial_news", Some(<< [key |-> "author", value |-> "y"] >>)>> } }

NextSmallK ==
    \/ \E a \in SmallKArgs : retrieve_top_k(a)
    \/ Expand
    \/ Submit
    \/ \E t \in DOMAIN tasks : StartTask(t)
    \/ \E t \in DOMAIN tasks : EncodeQuery(t)
    \/ \E t \in DOMAIN tasks : MakeEmbedder(t)
    \/ \E t \in DOMAIN tasks : SearchCollection(t)
    \/ \E t \in DOMAIN tasks : MakeClient(t)
    \/ \E t \in DOMAIN tasks : Gather(t)
    \/ MergeAndReturn

SpecSmallK == Init /\ [][NextSmallK]_vars

\* C24: in a call with 0 <= k < 5 every store call is issued with limit 0,
\* so (the store returning at most limit hits per call) no search has a
\* hit, nothing is gathered, and the call returns the empty list, whatever
\* the query, the expansion and the documents in the store.
C24_SmallKReturnsNothing ==
    (call.args.k >= 0 /\ call.args.k < 5) =>
        /\ \A t \in DOMAIN tasks :
              /\ \A i \in DOMAIN tasks[t].limits : tasks[t].limits[i] = 0
              /\ tasks[t].results = <<>>
        /\ hits = <<>>
        /\ ret = <<>>

\* a call with the default k = 3 has returned after two searches that asked
\* every collection, none of them failing, and it returned nothing
C24_Witness ==
    /\ pc = "idle"
    /\ calls >= 1
    /\ call.args.k = 3
    /\ call.down = {}
    /\ call.bad = {}
    /\ Len(outcome.searched) = 2
    /\ outcome.failed = "none"
    /\ ret = <<>>

====
